---- MODULE Spec2Model ----
(***************************************************************************)
(* Spendlens: the Flask API of src/app.py over a Redis store.              *)
(*                                                                         *)
(* The store holds string keys (userName, budgets, incomes and the two id  *)
(* counters) and three hashes (expenses, payments, photos) whose fields    *)
(* are the decimal text of an id and whose values are JSON text.  Each     *)
(* request handler of app.py is one action.  Spec runs the handlers of     *)
(* expenses, payments and photos; SpecLedger, SpecPayments, SpecSettings   *)
(* and SpecCounters run a group of handlers over a wider set of request    *)
(* bodies; SpecRace splits delete_photo into its two store round trips     *)
(* and interleaves them with the handlers of expenses and photos.          *)
(***************************************************************************)
EXTENDS Integers, Sequences, FiniteSets, TLC

VARIABLES kv, expenses, payments, photos, last, issuedE, issuedP, written, inflight

vars == <<kv, expenses, payments, photos, last, issuedE, issuedP, written, inflight>>
store == <<kv, expenses, payments, photos>>

\* The counters stop at MaxId (INCR itself is unbounded).
MaxId == 2
\* Requests of SpecRace that have read the store and not yet written.
MaxInflight == 1

----------------------------------------------------------------------------
\* Python / JSON values.  t is the type; n the number (or size); s the text.

Val(t, n, s) == [t |-> t, n |-> n, s |-> s]
Missing == Val("missing", 0, "")
Null == Val("null", 0, "")
IntV(n) == Val("int", n, "")
StrV(s) == Val("str", 0, s)
\* MapV(0) is {} and MapV(1) is {"food": 200}; ListV(0) is [] and ListV(1) is [1].
MapV(n) == Val("map", n, "")
ListV(n) == Val("list", n, "")
\* False is BoolV(0), True is BoolV(1).
BoolV(n) == Val("bool", n, "")

\* Python truthiness: `not v` / `v or d`.
Falsy(v) ==
    \/ v.t \in {"missing", "null"}
    \/ v.t \in {"int", "bool"} /\ v.n = 0
    \/ v.t = "str" /\ v.s = ""
    \/ v.t \in {"map", "list"} /\ v.n = 0

IsNoneOrFalsy(v) == Falsy(v)

\* `v is None`: dict.get of an absent key, or JSON null.
IsNone(v) == v.t \in {"missing", "null"}

\* json.dumps of a scalar, mapping or list value.
JsonDumps(v) ==
    CASE v.t = "int" -> ToString(v.n)
      [] v.t = "str" -> "\"" \o v.s \o "\""
      [] v.t = "map" -> IF v.n = 0 THEN "{}" ELSE "{\"food\": 200}"
      [] v.t = "list" -> IF v.n = 0 THEN "[]" ELSE "[1]"
      [] v.t = "bool" -> IF v.n = 0 THEN "false" ELSE "true"
      [] OTHER -> "null"

\* The values json.loads can produce in this model.
JsonValues ==
    {Null} \cup {IntV(n) : n \in 0..(MaxId + 1)} \cup {BoolV(n) : n \in 0..1}
           \cup {StrV(s) : s \in {"", "0", "bob"}}
           \cup {MapV(n) : n \in 0..1} \cup {ListV(n) : n \in 0..1}

DecodeError == Val("error", 0, "")

\* json.loads: the value whose JSON text this is, or a decode error.
JsonLoads(text) ==
    IF \E v \in JsonValues : JsonDumps(v) = text
    THEN CHOOSE v \in JsonValues : JsonDumps(v) = text
    ELSE DecodeError

\* What redis-py sends for a key, field or value: str as is, int in decimal.
\* (Other types raise DataError.)
Encodable(v) == v.t \in {"int", "str"}
RedisStr(v) == IF v.t = "int" THEN ToString(v.n) ELSE v.s

----------------------------------------------------------------------------
\* Dicts are functions from field names to values; the JSON text of a dict
\* is the sequence of its members.

FieldOrder == <<"id", "expenseId", "date", "billPhoto", "amount">>
FieldNames == {FieldOrder[i] : i \in DOMAIN FieldOrder}

EmptyDict == [k \in {} |-> Missing]
Get(d, k) == IF k \in DOMAIN d THEN d[k] ELSE Missing
SetField(d, k, v) == [x \in DOMAIN d \cup {k} |-> IF x = k THEN v ELSE d[x]]

RECURSIVE DumpsFrom(_, _)
DumpsFrom(d, i) ==
    IF i > Len(FieldOrder) THEN <<>>
    ELSE IF FieldOrder[i] \in DOMAIN d
         THEN <<<<FieldOrder[i], d[FieldOrder[i]]>>>> \o DumpsFrom(d, i + 1)
         ELSE DumpsFrom(d, i + 1)

\* json.dumps(dict)
DumpsObj(d) == DumpsFrom(d, 1)

\* json.loads of an object text
LoadsObj(txt) ==
    [k \in {txt[i][1] : i \in DOMAIN txt} |->
        (CHOOSE m \in {txt[i] : i \in DOMAIN txt} : m[1] = k)[2]]

----------------------------------------------------------------------------
\* Redis commands.  A key holds a string (kv) or a hash, never both.

HashNames == {"expenses", "payments", "photos"}
EmptyHash == [f \in {} |-> <<>>]

Exists(k) == k \in DOMAIN kv
\* WRONGTYPE: a hash command on a key that holds a string.
WrongType(h) == h \in DOMAIN kv

HGet(h, f) == IF f \in DOMAIN h THEN h[f] ELSE <<>>
HHas(h, f) == f \in DOMAIN h
HSet(h, f, txt) == [x \in DOMAIN h \cup {f} |-> IF x = f THEN txt ELSE h[x]]
HDel(h, f) == [x \in DOMAIN h \ {f} |-> h[x]]
Set(k, txt) == [x \in DOMAIN kv \cup {k} |-> IF x = k THEN txt ELSE kv[x]]

\* INCR: an absent key counts from 0; a value that is not a decimal integer
\* is an error.
CounterTexts == {ToString(n) : n \in 0..MaxId}
IncrOk(k) == ~Exists(k) \/ kv[k] \in CounterTexts
CounterValue(k) ==
    IF ~Exists(k) THEN 0 ELSE CHOOSE n \in 0..MaxId : ToString(n) = kv[k]
IncrResult(k) == CounterValue(k) + 1

----------------------------------------------------------------------------
\* parse_redis_hash

\* The strings of the model in Python's (code point) order.
StrOrder == <<"", "0", "1", "2", "2024-01", "2024-02", "bob", "x">>
StrRank(s) == CHOOSE i \in DOMAIN StrOrder : StrOrder[i] = s

\* The sort key: x.get(sort_key, 0) or 0
SortKeyOf(x, sort_key) ==
    IF Falsy(Get(x, sort_key)) THEN IntV(0) ELSE Get(x, sort_key)

\* Python orders int with int (bool is an int) and str with str; any other
\* pair raises TypeError.
Comparable(a, b) ==
    \/ a.t \in {"int", "bool"} /\ b.t \in {"int", "bool"}
    \/ a.t = "str" /\ b.t = "str"

KeyLess(a, b) == IF a.t = "str" THEN StrRank(a.s) < StrRank(b.s) ELSE a.n < b.n

\* x goes after every item that does not have to follow it (list.sort is
\* stable, also with reverse=True).
RECURSIVE InsertSorted(_, _, _, _)
InsertSorted(x, sorted, sort_key, reverse) ==
    IF sorted = <<>> THEN <<x>>
    ELSE LET h == Head(sorted)
             kx == SortKeyOf(x, sort_key)
             kh == SortKeyOf(h, sort_key)
             before == IF reverse THEN KeyLess(kh, kx) ELSE KeyLess(kx, kh)
         IN IF before THEN <<x>> \o sorted
            ELSE <<h>> \o InsertSorted(x, Tail(sorted), sort_key, reverse)

RECURSIVE SortItems(_, _, _)
SortItems(items, sort_key, reverse) ==
    IF items = <<>> THEN <<>>
    ELSE InsertSorted(items[Len(items)],
                      SortItems(SubSeq(items, 1, Len(items) - 1), sort_key, reverse),
                      sort_key, reverse)

\* vals is redis_hash.values(), in the order HGETALL gave the fields.
parse_redis_hash(vals, sort_key, reverse) ==
    LET items == [i \in DOMAIN vals |-> LoadsObj(vals[i])]
        raises == \E i, j \in DOMAIN items :
                     ~Comparable(SortKeyOf(items[i], sort_key),
                                 SortKeyOf(items[j], sort_key))
    IN IF raises THEN <<>> ELSE SortItems(items, sort_key, reverse)

\* The orders in which HGETALL may list a hash.
RECURSIVE Orders(_)
Orders(S) == IF S = {} THEN {<<>>}
             ELSE UNION {{<<x>> \o o : o \in Orders(S \ {x})} : x \in S}
HashOrders(h) == Orders(DOMAIN h)
HashValues(h, o) == [i \in DOMAIN o |-> h[o[i]]]

----------------------------------------------------------------------------
\* The request handlers.  last is the response to the latest request.

SettingKeys == {"userName", "budgets", "incomes"}

Response(op, status, id, key, val) ==
    [op |-> op, status |-> status, id |-> id, key |-> key, val |-> val]

Ops == {"get_all_data", "save_setting", "add_expense", "update_expense",
        "delete_expense", "add_payment", "update_payment", "delete_payment",
        "add_or_update_photo", "delete_photo"}

\* get_db returned None: every handler answers 500 and leaves the store alone.
get_db_failed(op) ==
    /\ last' = Response(op, 500, 0, "", Missing)
    /\ UNCHANGED <<store, issuedE, issuedP, written>>

\* The settings part of the body of get_all_data.
UserNameOut == IF Exists("userName") /\ kv["userName"] # "" THEN StrV(kv["userName"])
               ELSE StrV("User")
SettingOutRaw(k) ==
    IF k = "userName" THEN UserNameOut
    ELSE IF Exists(k) /\ kv[k] # "" THEN StrV(kv[k]) ELSE MapV(0)

SettingOut(k) ==
    IF k = "userName" THEN UserNameOut
    ELSE JsonLoads(IF Exists(k) /\ kv[k] # "" THEN kv[k] ELSE "{}")

\* get_all_data raises when a HGETALL hits a string key or json.loads fails.
GetAllDataStatus ==
    IF \/ \E h \in HashNames : WrongType(h)
       \/ SettingOut("budgets") = DecodeError
       \/ SettingOut("incomes") = DecodeError
    THEN 500 ELSE 200

\* The three listings of hash h, for the order in which HGETALL gave it.
AllExpenses(h, oe) == parse_redis_hash(HashValues(h, oe), "id", TRUE)
UpcomingPayments(h, op) == parse_redis_hash(HashValues(h, op), "date", FALSE)
AllBillPhotos(h, oh) == parse_redis_hash(HashValues(h, oh), "expenseId", TRUE)

get_all_data ==
    /\ last' = Response("get_all_data", GetAllDataStatus, 0, "", Missing)
    /\ UNCHANGED <<store, issuedE, issuedP, written>>

save_setting(key, value) ==
    LET stored == IF value.t \in {"map", "list"} THEN StrV(JsonDumps(value)) ELSE value
        k == RedisStr(key)
    IN IF Falsy(key) \/ IsNone(value)
       THEN /\ last' = Response("save_setting", 400, 0, key.s, value)
            /\ UNCHANGED <<store, issuedE, issuedP, written>>
       ELSE IF ~Encodable(key) \/ ~Encodable(stored)
       THEN /\ last' = Response("save_setting", 500, 0, key.s, value)
            /\ UNCHANGED <<store, issuedE, issuedP, written>>
       ELSE /\ kv' = Set(k, RedisStr(stored))
            /\ expenses' = IF k = "expenses" THEN EmptyHash ELSE expenses
            /\ payments' = IF k = "payments" THEN EmptyHash ELSE payments
            /\ photos' = IF k = "photos" THEN EmptyHash ELSE photos
            /\ written' = IF k \in SettingKeys
                          THEN [written EXCEPT ![k] = value] ELSE written
            /\ last' = Response("save_setting", 200, 0, k, value)
            /\ UNCHANGED <<issuedE, issuedP, inflight>>

add_expense(body) ==
    IF ~IncrOk("next_expense_id")
    THEN /\ last' = Response("add_expense", 500, 0, "", Missing)
         /\ UNCHANGED <<store, issuedE, issuedP, written>>
    ELSE LET new_expense_id == IncrResult("next_expense_id")
             data == SetField(body, "id", IntV(new_expense_id))
         IN /\ new_expense_id <= MaxId
            /\ kv' = Set("next_expense_id", ToString(new_expense_id))
            /\ IF WrongType("expenses")
               THEN /\ last' = Response("add_expense", 500, 0, "", Missing)
                    /\ UNCHANGED <<expenses, issuedE>>
               ELSE /\ expenses' = HSet(expenses, ToString(new_expense_id), DumpsObj(data))
                    /\ issuedE' = issuedE \cup {new_expense_id}
                    /\ last' = Response("add_expense", 201, new_expense_id, "", Missing)
            /\ UNCHANGED <<payments, photos, issuedP, written>>

update_expense_keeps_body_id(expense_id, body) ==
    /\ expenses' = HSet(expenses, ToString(expense_id),
                        DumpsObj(IF "id" \in DOMAIN body THEN body
                                 ELSE SetField(body, "id", IntV(expense_id))))
    /\ last' = Response("update_expense", 200, expense_id, "", Missing)
    /\ UNCHANGED <<kv, payments, photos, issuedE, issuedP, written>>

update_expense(expense_id, body) ==
    LET data == SetField(body, "id", IntV(expense_id))
    IN IF WrongType("expenses")
       THEN /\ last' = Response("update_expense", 500, expense_id, "", Missing)
            /\ UNCHANGED <<store, issuedE, issuedP, written>>
       ELSE /\ expenses' = HSet(expenses, ToString(expense_id), DumpsObj(data))
            /\ last' = Response("update_expense", 200, expense_id, "", Missing)
            /\ UNCHANGED <<kv, payments, photos, issuedE, issuedP, written>>

delete_expense_keeps_photo(expense_id) ==
    /\ expenses' = IF WrongType("expenses") THEN expenses
                   ELSE HDel(expenses, ToString(expense_id))
    /\ last' = Response("delete_expense", IF WrongType("expenses") THEN 500 ELSE 200,
                        expense_id, "", Missing)
    /\ UNCHANGED <<kv, payments, photos, issuedE, issuedP, written>>

\* Both HDELs of the pipeline run; execute() raises if either failed.
delete_expense(expense_id) ==
    /\ expenses' = IF WrongType("expenses") THEN expenses
                   ELSE HDel(expenses, ToString(expense_id))
    /\ photos' = IF WrongType("photos") THEN photos
                 ELSE HDel(photos, ToString(expense_id))
    /\ last' = Response("delete_expense",
                        IF WrongType("expenses") \/ WrongType("photos") THEN 500 ELSE 200,
                        expense_id, "", Missing)
    /\ UNCHANGED <<kv, payments, issuedE, issuedP, written>>

add_payment(body) ==
    IF ~IncrOk("next_payment_id")
    THEN /\ last' = Response("add_payment", 500, 0, "", Missing)
         /\ UNCHANGED <<store, issuedE, issuedP, written>>
    ELSE LET new_payment_id == IncrResult("next_payment_id")
             data == SetField(body, "id", IntV(new_payment_id))
         IN /\ new_payment_id <= MaxId
            /\ kv' = Set("next_payment_id", ToString(new_payment_id))
            /\ IF WrongType("payments")
               THEN /\ last' = Response("add_payment", 500, 0, "", Missing)
                    /\ UNCHANGED <<payments, issuedP>>
               ELSE /\ payments' = HSet(payments, ToString(new_payment_id), DumpsObj(data))
                    /\ issuedP' = issuedP \cup {new_payment_id}
                    /\ last' = Response("add_payment", 201, new_payment_id, "", Missing)
            /\ UNCHANGED <<expenses, photos, issuedE, written>>

\* data.get('date', existing_payment['date']) evaluates its default first:
\* a stored payment without a date raises KeyError.
update_payment(payment_id, body) ==
    LET f == ToString(payment_id)
        existing_payment == LoadsObj(HGet(payments, f))
        date == IF "date" \in DOMAIN body THEN body["date"] ELSE existing_payment["date"]
        status == IF WrongType("payments") THEN 500
                  ELSE IF ~HHas(payments, f) THEN 404
                  ELSE IF "date" \notin DOMAIN existing_payment THEN 500
                  ELSE 200
    IN /\ payments' = IF status = 200
                      THEN HSet(payments, f, DumpsObj(SetField(existing_payment, "date", date)))
                      ELSE payments
       /\ last' = Response("update_payment", status, payment_id, "", Get(body, "date"))
       /\ UNCHANGED <<kv, expenses, photos, issuedE, issuedP, written>>

delete_payment(payment_id) ==
    /\ payments' = IF WrongType("payments") THEN payments
                   ELSE HDel(payments, ToString(payment_id))
    /\ last' = Response("delete_payment", IF WrongType("payments") THEN 500 ELSE 200,
                        payment_id, "", Missing)
    /\ UNCHANGED <<kv, expenses, photos, issuedE, issuedP, written>>

add_or_update_photo(body) ==
    LET expense_id == Get(body, "expenseId")
        status == IF Falsy(expense_id) THEN 400
                  ELSE IF ~Encodable(expense_id) \/ WrongType("photos") THEN 500
                  ELSE 201
    IN /\ photos' = IF status = 201
                    THEN HSet(photos, RedisStr(expense_id), DumpsObj(body))
                    ELSE photos
       /\ last' = Response("add_or_update_photo", status, 0, "", expense_id)
       /\ UNCHANGED <<kv, expenses, payments, issuedE, issuedP, written>>

PhotoClearedOnly(expense_json) ==
    DumpsObj([k \in {"id", "billPhoto"} |->
                IF k = "id" THEN LoadsObj(expense_json)["id"] ELSE BoolV(0)])

\* The expense as delete_photo writes it back.
PhotoCleared(expense_json) == DumpsObj(SetField(LoadsObj(expense_json), "billPhoto", BoolV(0)))

delete_photo(expense_id) ==
    LET f == ToString(expense_id)
        expense_json == HGet(expenses, f)
    IN IF WrongType("expenses")
       THEN /\ last' = Response("delete_photo", 500, expense_id, "", Missing)
            /\ UNCHANGED <<store, issuedE, issuedP, written>>
       ELSE /\ expenses' = IF HHas(expenses, f)
                           THEN HSet(expenses, f, PhotoCleared(expense_json))
                           ELSE expenses
            /\ photos' = IF WrongType("photos") THEN photos ELSE HDel(photos, f)
            /\ last' = Response("delete_photo", IF WrongType("photos") THEN 500 ELSE 200,
                                expense_id, "", Missing)
            /\ UNCHANGED <<kv, payments, issuedE, issuedP, written>>

----------------------------------------------------------------------------
\* SpecRace: delete_photo one store round trip at a time.  HGET is the first
\* round trip, the pipeline (or the lone HDEL) the second; every other
\* handler of expenses and photos is a single round trip.  deleted records
\* that delete_expense removed the expense while the request was in flight
\* and that no add_expense or update_expense wrote it since.

Pending(id, found, snap) == [id |-> id, found |-> found, snap |-> snap, deleted |-> FALSE]

NoteDeleted(id) == {IF r.id = id THEN [r EXCEPT !.deleted = TRUE] ELSE r : r \in inflight}
NoteWritten(id) == {IF r.id = id THEN [r EXCEPT !.deleted = FALSE] ELSE r : r \in inflight}

delete_photo_hget(expense_id) ==
    /\ Cardinality(inflight) < MaxInflight
    /\ \A r \in inflight : r.id # expense_id
    /\ inflight' = inflight \cup
          {Pending(expense_id, HHas(expenses, ToString(expense_id)),
                   HGet(expenses, ToString(expense_id)))}
    /\ UNCHANGED <<store, last, issuedE, issuedP, written>>

delete_photo_execute(r) ==
    /\ r \in inflight
    /\ expenses' = IF r.found
                   THEN HSet(expenses, ToString(r.id), PhotoCleared(r.snap))
                   ELSE expenses
    /\ photos' = HDel(photos, ToString(r.id))
    /\ inflight' = inflight \ {r}
    /\ last' = Response("delete_photo", 200, r.id, "", Missing)
    /\ UNCHANGED <<kv, payments, issuedE, issuedP, written>>

race_add_expense(body) ==
    /\ add_expense(body)
    /\ inflight' = NoteWritten(IncrResult("next_expense_id"))

race_update_expense(expense_id, body) ==
    /\ update_expense(expense_id, body)
    /\ inflight' = NoteWritten(expense_id)

race_delete_expense(expense_id) ==
    /\ delete_expense(expense_id)
    /\ inflight' = NoteDeleted(expense_id)

----------------------------------------------------------------------------
\* The requests the model sends.

PathIds == 1..MaxId

\* A body with a client-chosen id, the photo flag and another field.
ExpenseBodies ==
    {[k \in {"id", "billPhoto", "amount"} |->
        CASE k = "id" -> IntV(0) [] k = "billPhoto" -> BoolV(1) [] OTHER -> IntV(1)]}
\* Also a body without the photo flag.
LedgerBodies == ExpenseBodies \cup {[k \in {"amount"} |-> IntV(2)]}

PaymentBodies == {[k \in {"id", "date"} |-> IF k = "id" THEN IntV(0) ELSE StrV("2024-01")]}
PaymentUpdates == PaymentBodies
\* Payments with a later date, a date of 0, and no date; updates with and
\* without a date.
RichPaymentBodies ==
    {EmptyDict, [k \in {"date", "amount"} |-> IF k = "date" THEN StrV("2024-02") ELSE IntV(1)],
     [k \in {"date"} |-> StrV("2024-01")]}
RichPaymentUpdates == {EmptyDict, [k \in {"id", "date"} |-> IF k = "id" THEN IntV(0) ELSE StrV("2024-01")]}

PhotoBodies ==
    {EmptyDict, [k \in {"expenseId"} |-> IntV(0)]}
    \cup {[k \in {"expenseId"} |-> IntV(i)] : i \in PathIds}
    \cup {[k \in {"expenseId", "amount"} |-> IF k = "amount" THEN IntV(1) ELSE StrV("1")]}


SettingValues ==
    {Missing, Null, StrV("bob"), StrV(""), StrV("0"), IntV(0), MapV(0), MapV(1), ListV(1)}
RichSettingRequests ==
    {<<Missing, StrV("bob")>>, <<StrV(""), StrV("bob")>>}
    \cup {<<StrV("userName"), v>> : v \in SettingValues}
    \cup {<<StrV("budgets"), v>> : v \in SettingValues}
    \cup {<<StrV("incomes"), v>> : v \in {MapV(1), ListV(1), StrV("bob")}}

\* Writes to keys that are not settings: the counters and a hash.
KeyRequests ==
    {<<StrV("next_expense_id"), IntV(0)>>, <<StrV("next_payment_id"), IntV(0)>>,
     <<StrV("next_payment_id"), StrV("bob")>>, <<StrV("expenses"), StrV("bob")>>}

Init ==
    /\ kv = [k \in {} |-> ""]
    /\ expenses = EmptyHash
    /\ payments = EmptyHash
    /\ photos = EmptyHash
    /\ last = Response("none", 0, 0, "", Missing)
    /\ issuedE = {}
    /\ issuedP = {}
    /\ written = [k \in SettingKeys |-> Missing]
    /\ inflight = {}

\* The handlers of the three hashes, every handler one step.
Next ==
    \/ get_all_data /\ UNCHANGED inflight
    \/ \E body \in ExpenseBodies : add_expense(body) /\ UNCHANGED inflight
    \/ \E id \in PathIds, body \in ExpenseBodies : update_expense(id, body) /\ UNCHANGED inflight
    \/ \E id \in PathIds : delete_expense(id) /\ UNCHANGED inflight
    \/ \E body \in PaymentBodies : add_payment(body) /\ UNCHANGED inflight
    \/ \E id \in PathIds, body \in PaymentUpdates : update_payment(id, body) /\ UNCHANGED inflight
    \/ \E id \in PathIds : delete_payment(id) /\ UNCHANGED inflight
    \/ \E body \in PhotoBodies : add_or_update_photo(body) /\ UNCHANGED inflight
    \/ \E id \in PathIds : delete_photo(id) /\ UNCHANGED inflight

Spec == Init /\ [][Next]_vars

\* Expenses and photos, with more kinds of expense.
NextLedger ==
    \/ get_all_data /\ UNCHANGED inflight
    \/ \E body \in LedgerBodies : add_expense(body) /\ UNCHANGED inflight
    \/ \E id \in PathIds, body \in LedgerBodies : update_expense(id, body) /\ UNCHANGED inflight
    \/ \E id \in PathIds : delete_expense(id) /\ UNCHANGED inflight
    \/ \E body \in PhotoBodies : add_or_update_photo(body) /\ UNCHANGED inflight
    \/ \E id \in PathIds : delete_photo(id) /\ UNCHANGED inflight

SpecLedger == Init /\ [][NextLedger]_vars

\* Payments, with more kinds of payment.
NextPayments ==
    \/ get_all_data /\ UNCHANGED inflight
    \/ \E body \in RichPaymentBodies : add_payment(body) /\ UNCHANGED inflight
    \/ \E id \in PathIds, body \in RichPaymentUpdates : update_payment(id, body) /\ UNCHANGED inflight
    \/ \E id \in PathIds : delete_payment(id) /\ UNCHANGED inflight

SpecPayments == Init /\ [][NextPayments]_vars

\* Settings, with more kinds of value, and requests that find no database.
NextSettings ==
    \/ \E op \in Ops : get_db_failed(op) /\ UNCHANGED inflight
    \/ get_all_data /\ UNCHANGED inflight
    \/ \E r \in RichSettingRequests : save_setting(r[1], r[2]) /\ UNCHANGED inflight
    \/ \E body \in PhotoBodies : add_or_update_photo(body) /\ UNCHANGED inflight

SpecSettings == Init /\ [][NextSettings]_vars

\* The counters, with save_setting writing to keys that are not settings.
NextCounters ==
    \/ get_all_data /\ UNCHANGED inflight
    \/ \E r \in KeyRequests : save_setting(r[1], r[2]) /\ UNCHANGED inflight
    \/ \E body \in ExpenseBodies : add_expense(body) /\ UNCHANGED inflight
    \/ \E id \in PathIds : delete_expense(id) /\ UNCHANGED inflight
    \/ \E body \in PaymentBodies : add_payment(body) /\ UNCHANGED inflight
    \/ \E id \in PathIds : delete_payment(id) /\ UNCHANGED inflight

SpecCounters == Init /\ [][NextCounters]_vars

\* Expenses and photos, delete_photo in two round trips.
NextRace ==
    \/ \E body \in ExpenseBodies : race_add_expense(body)
    \/ \E id \in PathIds, body \in ExpenseBodies : race_update_expense(id, body)
    \/ \E id \in PathIds : race_delete_expense(id)
    \/ \E body \in PhotoBodies : add_or_update_photo(body) /\ UNCHANGED inflight
    \/ \E id \in PathIds : delete_photo_hget(id)
    \/ \E r \in inflight : delete_photo_execute(r)

SpecRace == Init /\ [][NextRace]_vars

----------------------------------------------------------------------------
\* Properties.  A step whose response last' names a handler is a step of that
\* handler; store' = store says the step wrote nothing.

Field(id) == ToString(id)
SameEntry(h, g, f) == (f \in DOMAIN h) = (f \in DOMAIN g) /\ (f \in DOMAIN h => h[f] = g[f])
OthersSame(h, g, f) == \A x \in (DOMAIN h \cup DOMAIN g) \ {f} : SameEntry(h, g, x)
Items(list) == {list[i] : i \in DOMAIN list}

\* C3: a successful delete_photo(e) removes photos[e]; an expense e that was
\* stored is still stored, with billPhoto false and every other field as it
\* was; if no expense e was stored, the expenses are as they were.
DeletePhotoFrame ==
    [][ (last'.op = "delete_photo" /\ last'.status = 200) =>
          LET f == Field(last'.id) IN
          /\ f \notin DOMAIN photos'
          /\ f \in DOMAIN expenses =>
                /\ f \in DOMAIN expenses'
                /\ LET old == LoadsObj(expenses[f])
                       new == LoadsObj(expenses'[f])
                   IN /\ DOMAIN new = DOMAIN old \cup {"billPhoto"}
                      /\ new["billPhoto"] = BoolV(0)
                      /\ \A k \in DOMAIN old \ {"billPhoto"} : new[k] = old[k]
          /\ f \notin DOMAIN expenses => expenses' = expenses ]_vars

\* delete_photo has answered 200 for a stored expense, which now has the flag
\* false beside its id and its amount.
DeletePhotoActed ==
    /\ last.op = "delete_photo" /\ last.status = 200
    /\ Field(last.id) \in DOMAIN expenses
    /\ LET x == LoadsObj(expenses[Field(last.id)])
       IN Get(x, "billPhoto") = BoolV(0) /\ Get(x, "amount") = IntV(1)
             /\ Get(x, "id") = IntV(last.id)

\* C4: update_payment answers 404 and writes nothing when payments[p] is not
\* stored; otherwise it answers 200 and payments[p] is the record it was with
\* the date of the body, if the body has one; nothing else changes.
UpdatePaymentMergesDate ==
    [][ last'.op = "update_payment" =>
          LET f == Field(last'.id) IN
          IF f \notin DOMAIN payments
          THEN last'.status = 404 /\ store' = store
          ELSE LET old == LoadsObj(payments[f])
                   new == IF last'.val = Missing THEN old
                          ELSE SetField(old, "date", last'.val)
               IN /\ last'.status = 200
                  /\ f \in DOMAIN payments'
                  /\ LoadsObj(payments'[f]) = new
                  /\ OthersSame(payments', payments, f)
                  /\ kv' = kv /\ expenses' = expenses /\ photos' = photos ]_vars

\* A listing holds every record of hash h; a listing is in the order of its
\* sort keys.
Complete(h, list) ==
    /\ Len(list) = Cardinality(DOMAIN h)
    /\ \A f \in DOMAIN h : LoadsObj(h[f]) \in Items(list)
Ordered(list, sort_key, reverse) ==
    \A i, j \in DOMAIN list :
        i < j => LET ki == SortKeyOf(list[i], sort_key)
                     kj == SortKeyOf(list[j], sort_key)
                 IN /\ ki.t = "str" <=> kj.t = "str"
                    /\ IF reverse THEN ~KeyLess(ki, kj) ELSE ~KeyLess(kj, ki)

\* C6: when get_all_data answers 200, whatever order the hashes are read in,
\* each listing holds every stored record of its hash, in the order of its
\* sort key (a missing or falsy key counting as 0).
ListingsCompleteAndSorted ==
    GetAllDataStatus = 200 =>
        /\ \A o \in HashOrders(expenses) :
              /\ Complete(expenses, AllExpenses(expenses, o))
              /\ Ordered(AllExpenses(expenses, o), "id", TRUE)
        /\ \A o \in HashOrders(payments) :
              /\ Complete(payments, UpcomingPayments(payments, o))
              /\ Ordered(UpcomingPayments(payments, o), "date", FALSE)
        /\ \A o \in HashOrders(photos) :
              /\ Complete(photos, AllBillPhotos(photos, o))
              /\ Ordered(AllBillPhotos(photos, o), "expenseId", TRUE)

\* C1: every id add_expense returns is greater than every id it returned
\* before, the same for add_payment, and neither handler changes the other's
\* counter.
IdsNeverReused ==
    [][ /\ (last'.op = "add_expense" /\ last'.status = 201)
              => /\ \A i \in issuedE : last'.id > i
                 /\ SameEntry(kv', kv, "next_payment_id")
        /\ (last'.op = "add_payment" /\ last'.status = 201)
              => /\ \A i \in issuedP : last'.id > i
                 /\ SameEntry(kv', kv, "next_expense_id") ]_vars

\* C2: after a successful delete_expense(e) neither expenses[e] nor photos[e]
\* is stored, no listing of get_all_data shows e, and every other entry of the
\* store is as it was.
DeleteExpenseRemovesBoth ==
    /\ [](  (last.op = "delete_expense" /\ last.status = 200) =>
             LET f == Field(last.id) IN
             /\ f \notin DOMAIN expenses
             /\ f \notin DOMAIN photos
             /\ \A o \in HashOrders(expenses) : \A x \in Items(AllExpenses(expenses, o)) :
                    Get(x, "id") # IntV(last.id)
             /\ \A o \in HashOrders(photos) : \A x \in Items(AllBillPhotos(photos, o)) :
                    Get(x, "expenseId") \notin {IntV(last.id), StrV(f)}  )
    /\ [][ (last'.op = "delete_expense" /\ last'.status = 200) =>
             LET f == Field(last'.id) IN
             /\ OthersSame(expenses', expenses, f)
             /\ OthersSame(photos', photos, f)
             /\ payments' = payments
             /\ kv' = kv ]_vars

\* delete_expense has answered 200 for an id add_expense had issued, and
\* another expense, another photo and a payment are still stored.
DeleteExpenseActed ==
    /\ last.op = "delete_expense" /\ last.status = 200 /\ last.id \in issuedE
    /\ DOMAIN expenses # {} /\ DOMAIN photos # {} /\ DOMAIN payments # {}

\* C8: when add_or_update_photo answers 201 the expense its photo is stored
\* under exists.
PhotoHasExpense ==
    (last.op = "add_or_update_photo" /\ last.status = 201)
        => RedisStr(last.val) \in DOMAIN expenses

\* C9: every stored record carries the key it is stored under.
RecordsCarryKey ==
    /\ \A f \in DOMAIN expenses :
          LET x == LoadsObj(expenses[f]) IN Get(x, "id").t = "int" /\ Field(Get(x, "id").n) = f
    /\ \A f \in DOMAIN payments :
          LET x == LoadsObj(payments[f]) IN Get(x, "id").t = "int" /\ Field(Get(x, "id").n) = f
    /\ \A f \in DOMAIN photos :
          LET x == LoadsObj(photos[f]) IN
             Get(x, "expenseId").t \in {"int", "str"} /\ RedisStr(Get(x, "expenseId")) = f

\* update_expense has stored a body that carried an id of its own under an id
\* add_expense never issued, a payment is stored, and a photo is stored under
\* the text of a string expenseId.
ClientIdsWritten ==
    /\ last.op = "update_expense" /\ last.status = 200 /\ last.id \notin issuedE
    /\ Field(last.id) \in DOMAIN expenses
    /\ DOMAIN payments # {}
    /\ \E f \in DOMAIN photos : Get(LoadsObj(photos[f]), "expenseId").t = "str"

\* C5: after an accepted save_setting of a setting key, a get_all_data that
\* answers 200 returns under that key the value that was written.
SettingRoundTrip ==
    \A k \in SettingKeys :
        (written[k] # Missing /\ GetAllDataStatus = 200) => SettingOut(k) = written[k]

\* The values each setting key is meant to hold.
RoundTrips(k, v) ==
    \/ k = "userName" /\ v.t = "str" /\ v.s # ""
    \/ k \in {"budgets", "incomes"} /\ v.t \in {"map", "list", "int"}

\* C5 as amended: the same for a user name that is a non-empty string and for
\* budgets and incomes that are a mapping, a list or an integer.
SettingRoundTripTyped ==
    \A k \in SettingKeys :
        (RoundTrips(k, written[k]) /\ GetAllDataStatus = 200) => SettingOut(k) = written[k]

\* get_all_data has answered 200 after a user name, a mapping of budgets and
\* a list of incomes were written.
SettingsRead ==
    /\ last.op = "get_all_data" /\ last.status = 200
    /\ written["userName"] = StrV("bob")
    /\ written["budgets"] = MapV(1)
    /\ written["incomes"] = ListV(1)

\* The requests that lack a required field.
KeyAbsent(r) == r.key = ""
Absent(v) == v.t \in {"missing", "null"}
Rejected400(r, valueAbsent, idAbsent) ==
    \/ r.op = "save_setting" /\ (KeyAbsent(r) \/ valueAbsent)
    \/ r.op = "add_or_update_photo" /\ idAbsent

DeletionNotUndone ==
    [][ \A r \in inflight :
          (r.deleted /\ \A q \in inflight' : q.id # r.id)
              => Field(r.id) \notin DOMAIN expenses' ]_vars

====
